---- MODULE Spec2Model ----
(***************************************************************************)
(* Match escrow state machine of contracts/PlayGame.sol on top of the      *)
(* GameToken ERC-20 ledger (contract GameToken).                           *)
(*                                                                         *)
(* Every external call is one atomic step.  A call whose `require` fails   *)
(* reverts: the EVM discards every write of the transaction, so a reverted *)
(* call is no step at all and the action of the call is enabled only where *)
(* every `require` passes.  The revert reason a call would give in a state *)
(* is computed by the ...Result operators, in the order of the `require`   *)
(* statements of the source; OK stands for a call that goes through.       *)
(*                                                                         *)
(* The second half is the indexer of tools/leaderboard.js: the event       *)
(* handlers, which write the players and events tables of its SQLite       *)
(* database, and the two ranked queries.  The handlers contain no await,    *)
(* so each runs to completion and is one atomic step.  SpecAgg feeds the    *)
(* handlers any events in any order; Spec runs the contracts alone, and the *)
(* tables an indexer holds once it has handled the whole log of the        *)
(* contract are computed from that log by the same handlers.               *)
(*                                                                         *)
(* Further specifications run the same calls in other surroundings:        *)
(* SpecMulti with two match ids sharing the balance of PlayGame, SpecWide  *)
(* with stakes over the whole range of a uint256, SpecLive on a token that *)
(* stays unpaused with a clock that goes on, and SpecSys with the          *)
(* listeners of the indexer handling the log of the contract behind it.    *)
(***************************************************************************)
EXTENDS Integers, Sequences, FiniteSets, TLC

\* ---- bounds of the model ------------------------------------------------
MaxStake == 2
MaxSupply == 4
MaxTime == 3
Timeout == 1
\* the indexer: rows it may record, its wall clock, the larger of the two
\* amounts events carry
MaxRows == 3
MaxWall == 2
MaxAmount == 5
\* SQLite numbers, scaled down: integers are exact up to SqlIntMax (2^63 - 1 in
\* SQLite); beyond it a number is a REAL, which CAST(... AS TEXT) writes with 15
\* significant digits, here the nearest multiple of RealStep
SqlIntMax == 3
RealStep == 3

\* ---- program constants --------------------------------------------------
CREATED == 0
STAKED == 1
SETTLED == 2
REFUNDED == 3

OK == "ok"

\* type(uint256).max, scaled down to the model: the largest value a balance, a
\* stake or the total supply can take; the cap of mint() below is the overflow
\* check of ERC20._mint on the total supply
UintMax == MaxSupply
\* the revert of Solidity 0.8 checked arithmetic
Panic == "Panic(0x11)"

\* accounts that send transactions: the deployer (owner of PlayGame, admin and
\* minter of GameToken), the operator given to the constructor, two players
Owner == "owner"
Operator == "operator"
Addr == {"owner", "operator", "alice", "bob"}
\* address(0) and the address of the PlayGame contract itself
ZERO == "0x0"
THIS == "PlayGame"
\* bytes32(0) is the id of a slot that holds no match
NoId == "0x00"

MatchIds == {"m1"}
IdArgs == MatchIds \cup {NoId}
Players == {"alice", "bob"}
PlayerArgs == Players \cup {ZERO}
WinnerArgs == Addr \cup {ZERO}
StakeArgs == 0..MaxStake
Holders == Addr \cup {THIS}

VARIABLES
    matches,     \* PlayGame.matches : bytes32 => Match
    balances,    \* GameToken balances (ERC20._balances)
    allowance,   \* GameToken allowance of each account towards PlayGame
    paused,      \* GameToken Pausable flag
    now,         \* block.timestamp
    events,      \* the log of events emitted by PlayGame, in emission order
    custody,     \* tokens moved in minus tokens moved out, per match id
    players,     \* indexer: table players, address => wins, total_gt_won, matches_played
    rows,        \* indexer: table events, in the order of the AUTOINCREMENT id
    wall         \* indexer: CURRENT_TIMESTAMP of its database, in seconds

contractVars == <<matches, balances, allowance, paused, now, events, custody>>
aggVars == <<players, rows, wall>>
vars == <<matches, balances, allowance, paused, now, events, custody, players, rows, wall>>

\* the zero-initialised storage slot of the mapping
EmptyMatch ==
    [id |-> NoId, p1 |-> ZERO, p2 |-> ZERO, stake |-> 0, status |-> CREATED,
     p1Staked |-> FALSE, p2Staked |-> FALSE, startTime |-> 0]

Event(type, matchId, a, b, amount) ==
    [type |-> type, matchId |-> matchId, a |-> a, b |-> b, amount |-> amount]

RECURSIVE SumOver(_, _)
SumOver(f, S) ==
    IF S = {} THEN 0
    ELSE LET x == CHOOSE y \in S : TRUE IN f[x] + SumOver(f, S \ {x})

totalSupply == SumOver(balances, Holders)

Init ==
    /\ matches = [i \in IdArgs |-> EmptyMatch]
    /\ balances = [h \in Holders |-> 0]
    /\ allowance = [a \in Addr |-> 0]
    /\ paused = FALSE
    /\ now = 1
    /\ events = <<>>
    /\ custody = [i \in MatchIds |-> 0]
    /\ players = [a \in {} |-> 0]
    /\ rows = <<>>
    /\ wall = 1

\* ---- GameToken ------------------------------------------------------------

\* GameToken.transferFrom(from, PlayGame, amount) called by PlayGame
transferFromResult(from, amount) ==
    IF paused THEN "Pausable: paused"
    ELSE IF allowance[from] < amount THEN "ERC20: insufficient allowance"
    ELSE IF balances[from] < amount THEN "ERC20: transfer amount exceeds balance"
    ELSE OK

\* GameToken.transfer(to, amount) called by PlayGame, on the balances bal
transferResult(bal, amount) ==
    IF paused THEN "Pausable: paused"
    ELSE IF bal[THIS] < amount THEN "ERC20: transfer amount exceeds balance"
    ELSE OK

\* a transfer that credits the receiver without debiting the sender
Moved_CreditOnly(bal, from, to, amount) ==
    IF from = to THEN bal
    ELSE [bal EXCEPT ![to] = @ + amount]

\* the balances after moving amount from one holder to another
Moved(bal, from, to, amount) ==
    IF from = to THEN bal
    ELSE [bal EXCEPT ![from] = @ - amount, ![to] = @ + amount]

mint(sender, to, amount) ==
    /\ totalSupply + amount <= MaxSupply
    /\ sender = Owner
    /\ ~paused
    /\ balances' = [balances EXCEPT ![to] = @ + amount]
    /\ UNCHANGED <<matches, allowance, paused, now, events, custody>>

approve(sender, amount) ==
    /\ allowance' = [allowance EXCEPT ![sender] = amount]
    /\ UNCHANGED <<matches, balances, paused, now, events, custody>>

pause(sender) ==
    /\ sender = Owner
    /\ ~paused
    /\ paused' = TRUE
    /\ UNCHANGED <<matches, balances, allowance, now, events, custody>>

unpause(sender) ==
    /\ sender = Owner
    /\ paused
    /\ paused' = FALSE
    /\ UNCHANGED <<matches, balances, allowance, now, events, custody>>

\* ---- PlayGame ---------------------------------------------------------------

\* createMatch() open to every caller
createMatchResult_NoOwnerGuard(sender, matchId, p1, p2, stake) ==
    IF matchId = NoId THEN "Invalid match ID"
    ELSE IF ~(p1 # ZERO /\ p2 # ZERO) THEN "Invalid player addresses"
    ELSE IF ~(p1 # p2) THEN "Players must be different"
    ELSE IF ~(stake > 0) THEN "Stake must be greater than 0"
    ELSE IF ~(matches[matchId].id = NoId) THEN "Match already exists"
    ELSE OK

\* createMatch() that lets one account play itself
createMatchResult_NoDistinctGuard(sender, matchId, p1, p2, stake) ==
    IF sender # Owner THEN "Ownable: caller is not the owner"
    ELSE IF matchId = NoId THEN "Invalid match ID"
    ELSE IF ~(p1 # ZERO /\ p2 # ZERO) THEN "Invalid player addresses"
    ELSE IF ~(stake > 0) THEN "Stake must be greater than 0"
    ELSE IF ~(matches[matchId].id = NoId) THEN "Match already exists"
    ELSE OK

\* createMatch() that lets an id be used again
createMatchResult_NoDuplicateGuard(sender, matchId, p1, p2, stake) ==
    IF sender # Owner THEN "Ownable: caller is not the owner"
    ELSE IF matchId = NoId THEN "Invalid match ID"
    ELSE IF ~(p1 # ZERO /\ p2 # ZERO) THEN "Invalid player addresses"
    ELSE IF ~(p1 # p2) THEN "Players must be different"
    ELSE IF ~(stake > 0) THEN "Stake must be greater than 0"
    ELSE OK

createMatchResult(sender, matchId, p1, p2, stake) ==
    IF sender # Owner THEN "Ownable: caller is not the owner"
    ELSE IF matchId = NoId THEN "Invalid match ID"
    ELSE IF ~(p1 # ZERO /\ p2 # ZERO) THEN "Invalid player addresses"
    ELSE IF ~(p1 # p2) THEN "Players must be different"
    ELSE IF ~(stake > 0) THEN "Stake must be greater than 0"
    ELSE IF ~(matches[matchId].id = NoId) THEN "Match already exists"
    ELSE OK

\* a createMatch() that stores the two players in each other's field
createMatch_PlayersSwapped(sender, matchId, p1, p2, stake) ==
    /\ createMatchResult(sender, matchId, p1, p2, stake) = OK
    /\ matches' = [matches EXCEPT ![matchId] =
            [id |-> matchId, p1 |-> p2, p2 |-> p1, stake |-> stake,
             status |-> CREATED, p1Staked |-> FALSE, p2Staked |-> FALSE,
             startTime |-> 0]]
    /\ events' = Append(events, Event("MatchCreated", matchId, p1, p2, stake))
    /\ UNCHANGED <<balances, allowance, paused, now, custody>>

createMatch(sender, matchId, p1, p2, stake) ==
    /\ createMatchResult(sender, matchId, p1, p2, stake) = OK
    /\ matches' = [matches EXCEPT ![matchId] =
            [id |-> matchId, p1 |-> p1, p2 |-> p2, stake |-> stake,
             status |-> CREATED, p1Staked |-> FALSE, p2Staked |-> FALSE,
             startTime |-> 0]]
    /\ events' = Append(events, Event("MatchCreated", matchId, p1, p2, stake))
    /\ UNCHANGED <<balances, allowance, paused, now, custody>>

\* a stake() that marks the match STAKED as soon as either player has staked
stakeEffects_EitherStaked(m, isP1) ==
    LET flagged == IF isP1 THEN [m EXCEPT !.p1Staked = TRUE]
                           ELSE [m EXCEPT !.p2Staked = TRUE]
    IN  IF flagged.p1Staked \/ flagged.p2Staked
        THEN [flagged EXCEPT !.status = STAKED, !.startTime = now]
        ELSE flagged

\* a stake() that marks the match STAKED without recording the time
stakeEffects_NoStartTime(m, isP1) ==
    LET flagged == IF isP1 THEN [m EXCEPT !.p1Staked = TRUE]
                           ELSE [m EXCEPT !.p2Staked = TRUE]
    IN  IF flagged.p1Staked /\ flagged.p2Staked
        THEN [flagged EXCEPT !.status = STAKED]
        ELSE flagged

\* the Match record after the writes of stake() that precede the transfer
stakeEffects(m, isP1) ==
    LET flagged == IF isP1 THEN [m EXCEPT !.p1Staked = TRUE]
                           ELSE [m EXCEPT !.p2Staked = TRUE]
    IN  IF flagged.p1Staked /\ flagged.p2Staked
        THEN [flagged EXCEPT !.status = STAKED, !.startTime = now]
        ELSE flagged

\* a stake() open to every account
stakeResult_NoPlayerGuard(sender, matchId) ==
    LET m == matches[matchId] IN
    IF ~(m.id # NoId) THEN "Match does not exist"
    ELSE IF ~(m.status = CREATED) THEN "Match not in created status"
    ELSE IF (IF sender = m.p1 THEN m.p1Staked ELSE m.p2Staked) THEN "Already staked"
    ELSE IF transferFromResult(sender, m.stake) # OK THEN transferFromResult(sender, m.stake)
    ELSE OK

\* a stake() a player may repeat
stakeResult_NoAlreadyStakedGuard(sender, matchId) ==
    LET m == matches[matchId] IN
    IF ~(m.id # NoId) THEN "Match does not exist"
    ELSE IF ~(m.status = CREATED) THEN "Match not in created status"
    ELSE IF ~(sender = m.p1 \/ sender = m.p2) THEN "Not a player in this match"
    ELSE IF transferFromResult(sender, m.stake) # OK THEN transferFromResult(sender, m.stake)
    ELSE OK

\* a stake() that goes on although the token refuses the transfer
stakeResult_TransferUnchecked(sender, matchId) ==
    LET m == matches[matchId] IN
    IF ~(m.id # NoId) THEN "Match does not exist"
    ELSE IF ~(m.status = CREATED) THEN "Match not in created status"
    ELSE IF ~(sender = m.p1 \/ sender = m.p2) THEN "Not a player in this match"
    ELSE IF (IF sender = m.p1 THEN m.p1Staked ELSE m.p2Staked) THEN "Already staked"
    ELSE OK

stakeResult(sender, matchId) ==
    LET m == matches[matchId] IN
    IF ~(m.id # NoId) THEN "Match does not exist"
    ELSE IF ~(m.status = CREATED) THEN "Match not in created status"
    ELSE IF ~(sender = m.p1 \/ sender = m.p2) THEN "Not a player in this match"
    ELSE IF (IF sender = m.p1 THEN m.p1Staked ELSE m.p2Staked) THEN "Already staked"
    ELSE IF transferFromResult(sender, m.stake) # OK THEN transferFromResult(sender, m.stake)
    ELSE OK

\* a stake() that sets the flag and the status without pulling the tokens
stake_NoTransfer(sender, matchId) ==
    LET m == matches[matchId] IN
    /\ stakeResult_TransferUnchecked(sender, matchId) = OK
    /\ matches' = [matches EXCEPT ![matchId] = stakeEffects(m, sender = m.p1)]
    /\ events' = Append(events, Event("Staked", matchId, sender, ZERO, m.stake))
    /\ UNCHANGED <<balances, allowance, custody, paused, now>>

stake(sender, matchId) ==
    LET m == matches[matchId] IN
    /\ stakeResult(sender, matchId) = OK
    /\ matches' = [matches EXCEPT ![matchId] = stakeEffects(m, sender = m.p1)]
    /\ balances' = Moved(balances, sender, THIS, m.stake)
    /\ allowance' = [allowance EXCEPT ![sender] = @ - m.stake]
    /\ custody' = [custody EXCEPT ![matchId] = @ + m.stake]
    /\ events' = Append(events, Event("Staked", matchId, sender, ZERO, m.stake))
    /\ UNCHANGED <<paused, now>>

\* a payout of one stake instead of both
payoutOf_OneStake(m) == m.stake

\* matchData.stake * 2 as a mathematical product; commitResult() reverts where
\* it does not fit a uint256
payoutOf(m) == m.stake * 2

\* a commitResult() that forgets to leave STAKED
markSettled_Forgotten(m) == m

\* a commitResult() that wipes the start time of the match it settles
markSettled_StartCleared(m) == [m EXCEPT !.status = SETTLED, !.startTime = 0]

\* matchData.status = SETTLED
markSettled(m) == [m EXCEPT !.status = SETTLED]

\* commitResult() without the status guard
commitResultResult_NoStatusGuard(sender, matchId, winner) ==
    LET m == matches[matchId] IN
    IF ~(sender = Operator) THEN "Only operator can commit results"
    ELSE IF ~(m.id # NoId) THEN "Match does not exist"
    ELSE IF ~(winner = m.p1 \/ winner = m.p2) THEN "Winner must be a player"
    ELSE IF payoutOf(m) > UintMax THEN Panic
    ELSE IF transferResult(balances, payoutOf(m)) # OK THEN transferResult(balances, payoutOf(m))
    ELSE OK

\* commitResult() without the operator guard
commitResultResult_NoOperatorGuard(sender, matchId, winner) ==
    LET m == matches[matchId] IN
    IF ~(m.id # NoId) THEN "Match does not exist"
    ELSE IF ~(m.status = STAKED) THEN "Match not staked"
    ELSE IF ~(winner = m.p1 \/ winner = m.p2) THEN "Winner must be a player"
    ELSE IF payoutOf(m) > UintMax THEN Panic
    ELSE IF transferResult(balances, payoutOf(m)) # OK THEN transferResult(balances, payoutOf(m))
    ELSE OK

\* commitResult() without the winner guard
commitResultResult_NoWinnerGuard(sender, matchId, winner) ==
    LET m == matches[matchId] IN
    IF ~(sender = Operator) THEN "Only operator can commit results"
    ELSE IF ~(m.id # NoId) THEN "Match does not exist"
    ELSE IF ~(m.status = STAKED) THEN "Match not staked"
    ELSE IF payoutOf(m) > UintMax THEN Panic
    ELSE IF transferResult(balances, payoutOf(m)) # OK THEN transferResult(balances, payoutOf(m))
    ELSE OK

commitResultResult(sender, matchId, winner) ==
    LET m == matches[matchId] IN
    IF ~(sender = Operator) THEN "Only operator can commit results"
    ELSE IF ~(m.id # NoId) THEN "Match does not exist"
    ELSE IF ~(m.status = STAKED) THEN "Match not staked"
    ELSE IF ~(winner = m.p1 \/ winner = m.p2) THEN "Winner must be a player"
    ELSE IF payoutOf(m) > UintMax THEN Panic
    ELSE IF transferResult(balances, payoutOf(m)) # OK THEN transferResult(balances, payoutOf(m))
    ELSE OK

\* a commitResult() that marks every STAKED match settled, not only its own
commitResult_SettlesAll(sender, matchId, winner) ==
    LET m == matches[matchId]
        payout == payoutOf(m)
    IN
    /\ commitResultResult(sender, matchId, winner) = OK
    /\ matches' = [j \in DOMAIN matches |->
                      IF matches[j].status = STAKED THEN markSettled(matches[j])
                      ELSE matches[j]]
    /\ balances' = Moved(balances, THIS, winner, payout)
    /\ custody' = [custody EXCEPT ![matchId] = @ - payout]
    /\ events' = Append(events, Event("Settled", matchId, winner, ZERO, payout))
    /\ UNCHANGED <<allowance, paused, now>>

\* a commitResult() that pays the winner without emitting Settled
commitResult_NoEvent(sender, matchId, winner) ==
    LET m == matches[matchId]
        payout == payoutOf(m)
    IN
    /\ commitResultResult(sender, matchId, winner) = OK
    /\ matches' = [matches EXCEPT ![matchId] = markSettled(m)]
    /\ balances' = Moved(balances, THIS, winner, payout)
    /\ custody' = [custody EXCEPT ![matchId] = @ - payout]
    /\ UNCHANGED <<allowance, paused, now, events>>

commitResult(sender, matchId, winner) ==
    LET m == matches[matchId]
        payout == payoutOf(m)
    IN
    /\ commitResultResult(sender, matchId, winner) = OK
    /\ matches' = [matches EXCEPT ![matchId] = markSettled(m)]
    /\ balances' = Moved(balances, THIS, winner, payout)
    /\ custody' = [custody EXCEPT ![matchId] = @ - payout]
    /\ events' = Append(events, Event("Settled", matchId, winner, ZERO, payout))
    /\ UNCHANGED <<allowance, paused, now>>

\* a refund() that pays player 1 only
refundees_FirstOnly(m) ==
    IF m.p1Staked THEN <<m.p1>> ELSE <<>>

\* the players refund() pays, in the order it pays them
refundees(m) ==
    (IF m.p1Staked THEN <<m.p1>> ELSE <<>>) \o (IF m.p2Staked THEN <<m.p2>> ELSE <<>>)

\* a refund loop that pays every player twice the stake
RECURSIVE payEach_Double(_, _, _)
payEach_Double(bal, payees, amount) ==
    IF payees = <<>> THEN bal
    ELSE payEach_Double(Moved(bal, THIS, Head(payees), 2 * amount), Tail(payees), amount)

RECURSIVE payEach(_, _, _)
payEach(bal, payees, amount) ==
    IF payees = <<>> THEN bal
    ELSE payEach(Moved(bal, THIS, Head(payees), amount), Tail(payees), amount)

RECURSIVE payEachResult(_, _, _)
payEachResult(bal, payees, amount) ==
    IF payees = <<>> THEN OK
    ELSE IF transferResult(bal, amount) # OK THEN transferResult(bal, amount)
    ELSE payEachResult(Moved(bal, THIS, Head(payees), amount), Tail(payees), amount)

\* a refund() that emits Refunded for the first player it pays only
refundEvents_FirstOnly(matchId, payees, amount) ==
    IF payees = <<>> THEN <<>>
    ELSE <<Event("Refunded", matchId, payees[1], ZERO, amount)>>

refundEvents(matchId, payees, amount) ==
    [k \in 1..Len(payees) |-> Event("Refunded", matchId, payees[k], ZERO, amount)]

\* refund() without the status guard
refundResult_NoStatusGuard(sender, matchId) ==
    LET m == matches[matchId] IN
    IF ~(m.id # NoId) THEN "Match does not exist"
    ELSE IF ~(now >= m.startTime + Timeout) THEN "Timeout not reached"
    ELSE payEachResult(balances, refundees(m), m.stake)

\* refund() that needs the deadline to have passed strictly
refundResult_StrictDeadline(sender, matchId) ==
    LET m == matches[matchId] IN
    IF ~(m.id # NoId) THEN "Match does not exist"
    ELSE IF ~(m.status = STAKED) THEN "Match not staked"
    ELSE IF ~(now > m.startTime + Timeout) THEN "Timeout not reached"
    ELSE payEachResult(balances, refundees(m), m.stake)

\* refund() open to every match that holds a stake, STAKED or not
refundResult_AnyStake(sender, matchId) ==
    LET m == matches[matchId] IN
    IF ~(m.id # NoId) THEN "Match does not exist"
    ELSE IF ~(m.status \in {CREATED, STAKED} /\ (m.p1Staked \/ m.p2Staked)) THEN "Match not staked"
    ELSE IF ~(now >= m.startTime + Timeout) THEN "Timeout not reached"
    ELSE payEachResult(balances, refundees(m), m.stake)

\* a refund() only the two players of the match may call
refundResult_PlayersOnly(sender, matchId) ==
    LET m == matches[matchId] IN
    IF ~(m.id # NoId) THEN "Match does not exist"
    ELSE IF ~(sender = m.p1 \/ sender = m.p2) THEN "Not a player in this match"
    ELSE IF ~(m.status = STAKED) THEN "Match not staked"
    ELSE IF ~(now >= m.startTime + Timeout) THEN "Timeout not reached"
    ELSE payEachResult(balances, refundees(m), m.stake)

refundResult(sender, matchId) ==
    LET m == matches[matchId] IN
    IF ~(m.id # NoId) THEN "Match does not exist"
    ELSE IF ~(m.status = STAKED) THEN "Match not staked"
    ELSE IF ~(now >= m.startTime + Timeout) THEN "Timeout not reached"
    ELSE payEachResult(balances, refundees(m), m.stake)

\* a refund() that pays the players back and leaves the match STAKED
refund_StatusKept(sender, matchId) ==
    LET m == matches[matchId] IN
    /\ refundResult(sender, matchId) = OK
    /\ matches' = matches
    /\ balances' = payEach(balances, refundees(m), m.stake)
    /\ custody' = [custody EXCEPT ![matchId] = @ - Len(refundees(m)) * m.stake]
    /\ events' = events \o refundEvents(matchId, refundees(m), m.stake)
    /\ UNCHANGED <<allowance, paused, now>>

refund(sender, matchId) ==
    LET m == matches[matchId] IN
    /\ refundResult(sender, matchId) = OK
    /\ matches' = [matches EXCEPT ![matchId].status = REFUNDED]
    /\ balances' = payEach(balances, refundees(m), m.stake)
    /\ custody' = [custody EXCEPT ![matchId] = @ - Len(refundees(m)) * m.stake]
    /\ events' = events \o refundEvents(matchId, refundees(m), m.stake)
    /\ UNCHANGED <<allowance, paused, now>>

getMatch(matchId) == matches[matchId]

\* a canRefund() that does not look at the status
canRefund_IgnoresStatus(matchId) ==
    LET m == matches[matchId] IN
    m.id # NoId /\ now >= m.startTime + Timeout

canRefund(matchId) ==
    LET m == matches[matchId] IN
    m.id # NoId /\ m.status = STAKED /\ now >= m.startTime + Timeout

getGTBalance == balances[THIS]

\* block.timestamp advances between transactions
Tick ==
    /\ now < MaxTime
    /\ now' = now + 1
    /\ UNCHANGED <<matches, balances, allowance, paused, events, custody>>
    /\ UNCHANGED aggVars

\* ---- the indexer (tools/leaderboard.js) ----------------------------------------

\* what the events it is fed may carry; an address stands for its lowercase
\* form, tx for the block number and transaction hash of the log entry
AggMatchIds == {"m1", "m2"}
NoMatch == "null"
\* Settled and Refunded carry a small or a large amount; the amounts of the
\* other events never reach a player record
AmountArgs == {1, MaxAmount}
OtherAmountArgs == {1}
TxArgs == {"t1"}
LimitArgs == 0..MaxRows

\* a REAL written with 15 significant digits: the nearest multiple of RealStep
roundReal(n) == ((2 * n + RealStep) \div (2 * RealStep)) * RealStep

\* CAST(text AS DECIMAL): an integer if it fits, otherwise a REAL
castDecimal(n) == IF n <= SqlIntMax THEN n ELSE roundReal(n)

\* CAST(number AS TEXT): the digits of an integer, 15 digits of a REAL
castText(n) == IF n <= SqlIntMax THEN n ELSE roundReal(n)

\* an INSERT OR REPLACE that writes the new row over the last one
logEvent_Replacing(rs, eventType, address, amount, matchId, tx) ==
    IF rs = <<>>
    THEN <<[id |-> 1, event_type |-> eventType, address |-> address,
            amount |-> amount, match_id |-> matchId, tx |-> tx, timestamp |-> wall]>>
    ELSE [rs EXCEPT ![Len(rs)] =
            [id |-> Len(rs), event_type |-> eventType, address |-> address,
             amount |-> amount, match_id |-> matchId, tx |-> tx, timestamp |-> wall]]

\* INSERT INTO events: the next id and the current second go with the row
logEvent(rs, eventType, address, amount, matchId, tx) ==
    Append(rs, [id |-> Len(rs) + 1, event_type |-> eventType, address |-> address,
                amount |-> amount, match_id |-> matchId, tx |-> tx,
                timestamp |-> wall])

\* INSERT INTO players ... ON CONFLICT(address) DO UPDATE: a new row takes the
\* three values as they are, an existing row adds them to its own, the total
\* through the casts
updatePlayerStats(ps, address, winsToAdd, gtWonToAdd, matchesToAdd) ==
    IF address \notin DOMAIN ps
    THEN [a \in DOMAIN ps \cup {address} |->
            IF a = address
            THEN [wins |-> winsToAdd, total_gt_won |-> gtWonToAdd,
                  matches_played |-> matchesToAdd]
            ELSE ps[a]]
    ELSE [ps EXCEPT ![address] =
            [wins |-> @.wins + winsToAdd,
             total_gt_won |-> castText(castDecimal(@.total_gt_won)
                                         + castDecimal(gtWonToAdd)),
             matches_played |-> @.matches_played + matchesToAdd]]

handlePurchaseEvent(buyer, gtOut, tx) ==
    /\ rows' = logEvent(rows, "Purchase", buyer, gtOut, NoMatch, tx)
    /\ players' = updatePlayerStats(players, buyer, 0, 0, 0)
    /\ UNCHANGED wall

handleMatchCreatedEvent(matchId, p1, p2, stake_, tx) ==
    /\ rows' = logEvent(logEvent(rows, "MatchCreated", p1, stake_, matchId, tx),
                        "MatchCreated", p2, stake_, matchId, tx)
    /\ players' = updatePlayerStats(updatePlayerStats(players, p1, 0, 0, 0), p2, 0, 0, 0)
    /\ UNCHANGED wall

handleStakedEvent(matchId, player, stake_, tx) ==
    /\ rows' = logEvent(rows, "Staked", player, stake_, matchId, tx)
    /\ UNCHANGED <<players, wall>>

\* a handler whose INSERT INTO events is lost while the statistics are updated
handleSettledEvent_Unlogged(matchId, winner, amount, tx) ==
    /\ players' = updatePlayerStats(players, winner, 1, amount, 1)
    /\ UNCHANGED <<rows, wall>>

handleSettledEvent(matchId, winner, amount, tx) ==
    /\ rows' = logEvent(rows, "Settled", winner, amount, matchId, tx)
    /\ players' = updatePlayerStats(players, winner, 1, amount, 1)
    /\ UNCHANGED wall

\* a handler that records the Refunded event and leaves the statistics alone
handleRefundedEvent_NoStats(matchId, player, amount, tx) ==
    /\ rows' = logEvent(rows, "Refunded", player, amount, matchId, tx)
    /\ UNCHANGED <<players, wall>>

handleRefundedEvent(matchId, player, amount, tx) ==
    /\ rows' = logEvent(rows, "Refunded", player, amount, matchId, tx)
    /\ players' = updatePlayerStats(players, player, 0, 0, 1)
    /\ UNCHANGED wall

\* ORDER BY CAST(total_gt_won AS DECIMAL) DESC, wins DESC: p sorts before q
rankedBefore(ps, p, q) ==
    \/ castDecimal(ps[p].total_gt_won) > castDecimal(ps[q].total_gt_won)
    \/ /\ castDecimal(ps[p].total_gt_won) = castDecimal(ps[q].total_gt_won)
       /\ ps[p].wins > ps[q].wins

\* the orders in which a query may return all of S: every order that puts x
\* before y whenever <<x, y>> is in the relation before; rows the ORDER BY does
\* not tell apart come in an order SQL leaves open
RECURSIVE ordersOf(_, _)
ordersOf(S, before) ==
    IF S = {} THEN {<<>>}
    ELSE UNION { { <<x>> \o s : s \in ordersOf(S \ {x}, before) } :
                 x \in {y \in S : \A z \in S : <<z, y>> \notin before} }

\* LIMIT ?
limited(s, limit) == SubSeq(s, 1, IF limit < Len(s) THEN limit ELSE Len(s))

\* the results getLeaderboard(limit) may return, as sequences of addresses
getLeaderboard(limit) ==
    LET before == {pq \in (DOMAIN players) \X (DOMAIN players) :
                       rankedBefore(players, pq[1], pq[2])} IN
    { limited(s, limit) : s \in ordersOf(DOMAIN players, before) }

\* the results getRecentEvents(limit) may return (ORDER BY timestamp DESC), as
\* sequences of row ids
getRecentEvents(limit) ==
    LET before == {jk \in (DOMAIN rows) \X (DOMAIN rows) :
                       rows[jk[1]].timestamp > rows[jk[2]].timestamp} IN
    { limited(s, limit) : s \in ordersOf(DOMAIN rows, before) }

getEventCount == Len(rows)

getPlayerCount == Cardinality(DOMAIN players)

\* CURRENT_TIMESTAMP moves on between two events
WallTick ==
    /\ wall < MaxWall
    /\ wall' = wall + 1
    /\ UNCHANGED <<players, rows>>
    /\ UNCHANGED contractVars

\* ---- the system -------------------------------------------------------------

Mint ==
    /\ \E s \in Addr, to \in Players, amt \in 1..MaxStake : mint(s, to, amt)
    /\ UNCHANGED aggVars
Approve ==
    /\ \E s \in Players, amt \in StakeArgs : approve(s, amt)
    /\ UNCHANGED aggVars
Pause ==
    /\ \E s \in Addr : pause(s)
    /\ UNCHANGED aggVars
Unpause ==
    /\ \E s \in Addr : unpause(s)
    /\ UNCHANGED aggVars
CreateMatch ==
    /\ \E s \in Addr, i \in IdArgs, p1 \in PlayerArgs, p2 \in PlayerArgs, st \in StakeArgs :
           createMatch(s, i, p1, p2, st)
    /\ UNCHANGED aggVars
Stake ==
    /\ \E s \in Addr, i \in IdArgs : stake(s, i)
    /\ UNCHANGED aggVars
CommitResult ==
    /\ \E s \in Addr, i \in IdArgs, w \in WinnerArgs : commitResult(s, i, w)
    /\ UNCHANGED aggVars
Refund ==
    /\ \E s \in Addr, i \in IdArgs : refund(s, i)
    /\ UNCHANGED aggVars

Next ==
    \/ Mint
    \/ Approve
    \/ Pause
    \/ Unpause
    \/ CreateMatch
    \/ Stake
    \/ CommitResult
    \/ Refund
    \/ Tick

Spec == Init /\ [][Next]_vars

\* the contracts with two match ids in use: every call of PlayGame by every
\* account on either id, on a token that is not paused
MultiIds == {"m1", "m2"}

InitMulti ==
    /\ matches = [i \in MultiIds \cup {NoId} |-> EmptyMatch]
    /\ balances = [h \in Holders |-> 0]
    /\ allowance = [a \in Addr |-> 0]
    /\ paused = FALSE
    /\ now = 1
    /\ events = <<>>
    /\ custody = [i \in MultiIds |-> 0]
    /\ players = [a \in {} |-> 0]
    /\ rows = <<>>
    /\ wall = 1

CreateMatchMulti ==
    /\ \E s \in Addr, i \in MultiIds \cup {NoId}, p1 \in PlayerArgs, p2 \in PlayerArgs,
          st \in StakeArgs : createMatch(s, i, p1, p2, st)
    /\ UNCHANGED aggVars
StakeMulti ==
    /\ \E s \in Addr, i \in MultiIds \cup {NoId} : stake(s, i)
    /\ UNCHANGED aggVars
CommitResultMulti ==
    /\ \E s \in Addr, i \in MultiIds \cup {NoId}, w \in WinnerArgs : commitResult(s, i, w)
    /\ UNCHANGED aggVars
RefundMulti ==
    /\ \E s \in Addr, i \in MultiIds \cup {NoId} : refund(s, i)
    /\ UNCHANGED aggVars

\* each player is funded once with half of the supply and approves the whole
\* supply while its allowance is used up
MintMulti ==
    /\ \E to \in Players : balances[to] = 0 /\ mint(Owner, to, MaxSupply \div 2)
    /\ UNCHANGED aggVars
ApproveMulti ==
    /\ \E s \in Players : allowance[s] = 0 /\ approve(s, MaxSupply)
    /\ UNCHANGED aggVars

NextMulti ==
    \/ MintMulti
    \/ ApproveMulti
    \/ CreateMatchMulti
    \/ StakeMulti
    \/ CommitResultMulti
    \/ RefundMulti
    \/ Tick

SpecMulti == InitMulti /\ [][NextMulti]_vars

\* the contracts with stakes and allowances over the whole range of a uint256:
\* a match may be created with any stake up to UintMax, a stake whose double
\* does not fit included
WideStakeArgs == 0..UintMax

ApproveWide ==
    /\ \E s \in Players : approve(s, UintMax)
    /\ UNCHANGED aggVars
CreateMatchWide ==
    /\ \E s \in Addr, i \in IdArgs, p1 \in PlayerArgs, p2 \in PlayerArgs,
          st \in WideStakeArgs : createMatch(s, i, p1, p2, st)
    /\ UNCHANGED aggVars

NextWide ==
    \/ Mint
    \/ ApproveWide
    \/ CreateMatchWide
    \/ Stake
    \/ CommitResult
    \/ Refund
    \/ Tick

SpecWide == Init /\ [][NextWide]_vars

\* the contracts and the indexer side by side: the listeners registered by
\* startIndexing() hand each event PlayGame has emitted to the handler of its
\* type, some time after the emission.  MatchCreated is recorded as two rows
\* and every other event as one, so the rows tell how many events of the log
\* have been handled.
delivered ==
    Cardinality({k \in DOMAIN rows : rows[k].event_type # "MatchCreated"})
    + Cardinality({k \in DOMAIN rows : rows[k].event_type = "MatchCreated"}) \div 2

Deliver ==
    /\ delivered < Len(events)
    /\ LET e == events[delivered + 1] IN
       \E tx \in TxArgs :
          CASE e.type = "MatchCreated" ->
                   handleMatchCreatedEvent(e.matchId, e.a, e.b, e.amount, tx)
            [] e.type = "Staked" -> handleStakedEvent(e.matchId, e.a, e.amount, tx)
            [] e.type = "Settled" -> handleSettledEvent(e.matchId, e.a, e.amount, tx)
            [] e.type = "Refunded" -> handleRefundedEvent(e.matchId, e.a, e.amount, tx)
    /\ UNCHANGED contractVars

NextSys ==
    \/ MintMulti
    \/ Approve
    \/ CreateMatch
    \/ Stake
    \/ CommitResult
    \/ Refund
    \/ Tick
    \/ Deliver

\* the event loop of the indexer runs a listener whose event is pending
SpecSys == Init /\ [][NextSys]_vars /\ WF_vars(Deliver)

\* the contracts on a token that stays unpaused, where time goes on and a
\* refund that stays possible is eventually sent by someone
NextLive ==
    \/ Mint
    \/ Approve
    \/ CreateMatch
    \/ Stake
    \/ CommitResult
    \/ Refund
    \/ Tick

SpecLive == Init /\ [][NextLive]_vars /\ WF_vars(Tick) /\ WF_vars(Refund)

\* the indexer fed by an event source that may deliver any event at any time
HandlePurchase ==
    /\ Len(rows) < MaxRows
    /\ \E b \in Players, g \in OtherAmountArgs, tx \in TxArgs : handlePurchaseEvent(b, g, tx)
    /\ UNCHANGED contractVars
HandleMatchCreated ==
    /\ Len(rows) + 1 < MaxRows
    /\ \E i \in AggMatchIds, p1 \in Players, p2 \in Players, st \in OtherAmountArgs,
          tx \in TxArgs : p1 # p2 /\ handleMatchCreatedEvent(i, p1, p2, st, tx)
    /\ UNCHANGED contractVars
HandleStaked ==
    /\ Len(rows) < MaxRows
    /\ \E i \in AggMatchIds, p \in Players, st \in OtherAmountArgs, tx \in TxArgs :
           handleStakedEvent(i, p, st, tx)
    /\ UNCHANGED contractVars
HandleSettled ==
    /\ Len(rows) < MaxRows
    /\ \E i \in AggMatchIds, w \in Players, a \in AmountArgs, tx \in TxArgs :
           handleSettledEvent(i, w, a, tx)
    /\ UNCHANGED contractVars
HandleRefunded ==
    /\ Len(rows) < MaxRows
    /\ \E i \in AggMatchIds, p \in Players, a \in AmountArgs, tx \in TxArgs :
           handleRefundedEvent(i, p, a, tx)
    /\ UNCHANGED contractVars

NextAgg ==
    \/ HandlePurchase
    \/ HandleMatchCreated
    \/ HandleStaked
    \/ HandleSettled
    \/ HandleRefunded
    \/ WallTick

SpecAgg == Init /\ [][NextAgg]_vars

\* ---- properties ---------------------------------------------------------------

stakedCount(m) == (IF m.p1Staked THEN 1 ELSE 0) + (IF m.p2Staked THEN 1 ELSE 0)

EventsOf(type, matchId) ==
    {k \in 1..Len(events) : events[k].type = type /\ events[k].matchId = matchId}

RECURSIVE AmountOf(_)
AmountOf(ks) ==
    IF ks = {} THEN 0
    ELSE LET k == CHOOSE x \in ks : TRUE IN events[k].amount + AmountOf(ks \ {k})

StatusStep(a, b) ==
    \/ a = b
    \/ a = CREATED /\ b = STAKED
    \/ a = STAKED /\ b \in {SETTLED, REFUNDED}

\* C1: in every step the status of every match either stays as it is, moves from
\* CREATED to STAKED, or moves from STAKED to SETTLED or REFUNDED; so nothing
\* goes backwards, nothing skips STAKED and nothing leaves SETTLED or REFUNDED.
StatusOnlyAdvances ==
    [][matches' # matches =>
         \A i \in MatchIds : StatusStep(matches[i].status, matches'[i].status)]_vars

\* a settled match whose refund deadline has passed: a refund is attempted on a
\* terminal status
WitnessTerminalPastDeadline ==
    \E i \in MatchIds :
        /\ matches[i].status = SETTLED
        /\ now >= matches[i].startTime + Timeout
        /\ EventsOf("Settled", i) # {}

CommitSucceedsAtMostOnce ==
    /\ [](\A i \in MatchIds :
            /\ Cardinality(EventsOf("Settled", i)) <= 1
            /\ matches[i].status # STAKED =>
                  \A s \in Addr, w \in WinnerArgs : commitResultResult(s, i, w) # OK
            /\ (matches[i].id # NoId /\ matches[i].status # STAKED) =>
                  \A w \in WinnerArgs :
                      commitResultResult(Operator, i, w) = "Match not staked")
    /\ [][vars' # vars =>
            \A s \in Addr, i \in IdArgs, w \in WinnerArgs :
                ~(matches[i].status # STAKED /\ commitResult(s, i, w))]_vars

\* a match settled once, on which the operator's second commit (for the other
\* player) is refused
WitnessSecondCommitRefused ==
    \E i \in MatchIds :
        /\ matches[i].status = SETTLED
        /\ Cardinality(EventsOf("Settled", i)) = 1
        /\ commitResultResult(Operator, i, matches[i].p2) = "Match not staked"
        /\ commitResultResult(Operator, i, matches[i].p1) = "Match not staked"

\* C4: a commitResult that succeeds leaves the match SETTLED, credits the winner
\* with exactly twice the stake, appends Settled(id, winner, 2 * stake) to the
\* log and leaves nothing in custody for the match.
CommitPaysTwiceStake ==
    [][vars' # vars =>
       \A s \in Addr, i \in MatchIds, w \in WinnerArgs :
         (commitResultResult(s, i, w) = OK /\ commitResult(s, i, w)) =>
            /\ matches[i].status = STAKED
            /\ matches'[i].status = SETTLED
            /\ balances'[w] = balances[w] + 2 * matches[i].stake
            /\ balances'[THIS] = balances[THIS] - 2 * matches[i].stake
            /\ events' = Append(events, Event("Settled", i, w, ZERO, 2 * matches[i].stake))
            /\ custody'[i] = 0]_vars

\* the state right after a settlement: Settled is the newest event
WitnessJustSettled ==
    /\ events # <<>>
    /\ LET e == events[Len(events)] IN
         /\ e.type = "Settled"
         /\ matches[e.matchId].status = SETTLED
         /\ e.amount = 2 * matches[e.matchId].stake
         /\ balances[e.a] >= e.amount
         /\ custody[e.matchId] = 0

\* C5: a commitResult sent by anyone but the operator (the owner and the players
\* included) is refused with "Only operator can commit results", and no step
\* that changes the state is such a call.
CommitOnlyByOperator ==
    /\ [](\A s \in Addr \ {Operator}, i \in IdArgs, w \in WinnerArgs :
            commitResultResult(s, i, w) = "Only operator can commit results")
    /\ [][vars' # vars =>
            \A s \in Addr \ {Operator}, i \in IdArgs, w \in WinnerArgs :
                ~commitResult(s, i, w)]_vars

\* a STAKED match the operator could settle, on which a player naming itself the
\* winner and the owner are both refused
WitnessNonOperatorRefused ==
    \E i \in MatchIds :
        /\ matches[i].status = STAKED
        /\ commitResultResult(Operator, i, matches[i].p1) = OK
        /\ commitResultResult(matches[i].p1, i, matches[i].p1)
               = "Only operator can commit results"
        /\ commitResultResult(Owner, i, matches[i].p1)
               = "Only operator can commit results"

\* C6: on a STAKED match the operator's commitResult for a winner that is
\* neither player is refused with "Winner must be a player"; no step that changes
\* the state is such a call, so the match is still STAKED with both stakes in
\* custody and the operator's commit for either player goes through (as far as
\* the paused token lets any transfer through).
InvalidWinnerRejected ==
    /\ [](\A i \in MatchIds, w \in WinnerArgs :
            (matches[i].status = STAKED /\ w \notin {matches[i].p1, matches[i].p2}) =>
                /\ commitResultResult(Operator, i, w) = "Winner must be a player"
                /\ custody[i] = 2 * matches[i].stake
                /\ ~paused => /\ commitResultResult(Operator, i, matches[i].p1) = OK
                              /\ commitResultResult(Operator, i, matches[i].p2) = OK)
    /\ [][vars' # vars =>
            \A i \in MatchIds, w \in WinnerArgs :
                ~(/\ matches[i].status = STAKED
                  /\ w \notin {matches[i].p1, matches[i].p2}
                  /\ commitResult(Operator, i, w))]_vars

\* a STAKED match on which the operator is refused for the owner as winner and
\* accepted for player 2
WitnessInvalidWinner ==
    \E i \in MatchIds :
        /\ matches[i].status = STAKED
        /\ commitResultResult(Operator, i, Owner) = "Winner must be a player"
        /\ commitResultResult(Operator, i, ZERO) = "Winner must be a player"
        /\ commitResultResult(Operator, i, matches[i].p2) = OK

\* C7 as stated: on a STAKED match refund succeeds for every caller whenever
\* now >= startTime + timeout.
RefundSucceedsFromDeadline ==
    \A i \in MatchIds, s \in Addr :
        (matches[i].status = STAKED /\ now >= matches[i].startTime + Timeout) =>
            refundResult(s, i) = OK

\* C7 as amended: on a STAKED match refund is refused with "Timeout not
\* reached" while now < startTime + timeout; from now = startTime + timeout on
\* it succeeds for every caller provided the token is not paused (a paused token
\* refuses the transfers and the refund reverts); a refund step that changes the
\* state happens only then, leaves the match REFUNDED, pays each of the two
\* players exactly the stake and appends one Refunded event per player.
RefundTiming ==
    /\ [](\A i \in MatchIds, s \in Addr :
            matches[i].status = STAKED =>
                /\ now < matches[i].startTime + Timeout =>
                       refundResult(s, i) = "Timeout not reached"
                /\ (now >= matches[i].startTime + Timeout /\ ~paused) =>
                       refundResult(s, i) = OK
                /\ (now >= matches[i].startTime + Timeout /\ paused) =>
                       refundResult(s, i) = "Pausable: paused")
    /\ [][vars' # vars =>
            \A s \in Addr, i \in MatchIds :
                refund(s, i) =>
                    LET m == matches[i] IN
                    /\ m.status = STAKED
                    /\ now >= m.startTime + Timeout
                    /\ ~paused
                    /\ matches'[i].status = REFUNDED
                    /\ balances'[m.p1] = balances[m.p1] + m.stake
                    /\ balances'[m.p2] = balances[m.p2] + m.stake
                    /\ balances'[THIS] = balances[THIS] - 2 * m.stake
                    /\ events' = events \o
                           << Event("Refunded", i, m.p1, ZERO, m.stake),
                              Event("Refunded", i, m.p2, ZERO, m.stake) >>]_vars

\* a match refunded at the very second the deadline was reached: the clock still
\* reads startTime + timeout and the two Refunded events are the newest
WitnessRefundedAtDeadline ==
    \E i \in MatchIds :
        /\ matches[i].status = REFUNDED
        /\ now = matches[i].startTime + Timeout
        /\ Len(events) >= 2
        /\ events[Len(events) - 1] =
               Event("Refunded", i, matches[i].p1, ZERO, matches[i].stake)
        /\ events[Len(events)] =
               Event("Refunded", i, matches[i].p2, ZERO, matches[i].stake)

SingleStakeRefundSucceeds ==
    \A i \in MatchIds, s \in Addr :
        (/\ stakedCount(matches[i]) = 1
         /\ now >= matches[i].startTime + Timeout
         /\ now = MaxTime
         /\ ~paused) => refundResult(s, i) = OK

\* tokens paid into and out of the contract for a match, from the event log
PaidIn(i) == AmountOf(EventsOf("Staked", i))
PaidOut(i) == AmountOf(EventsOf("Settled", i)) + AmountOf(EventsOf("Refunded", i))

\* C10: no match has both a Settled and a Refunded event; a match has a Settled
\* event exactly when it is SETTLED and Refunded events exactly when it is
\* REFUNDED; what was paid out for a match never exceeds what was staked into
\* it, which never exceeds 2 * stake; a SETTLED match refuses every refund with
\* "Match not staked" and a REFUNDED match refuses every commitResult.
SettleRefundExclusive ==
    \A i \in MatchIds :
        /\ ~(EventsOf("Settled", i) # {} /\ EventsOf("Refunded", i) # {})
        /\ (EventsOf("Settled", i) # {}) <=> (matches[i].status = SETTLED)
        /\ (EventsOf("Refunded", i) # {}) <=> (matches[i].status = REFUNDED)
        /\ PaidOut(i) <= PaidIn(i)
        /\ PaidIn(i) <= 2 * matches[i].stake
        /\ matches[i].status = SETTLED =>
               \A s \in Addr : refundResult(s, i) = "Match not staked"
        /\ matches[i].status = REFUNDED =>
               \A s \in Addr, w \in WinnerArgs :
                   /\ commitResultResult(s, i, w) # OK
                   /\ commitResultResult(Operator, i, w) = "Match not staked"

\* a refunded match, all of its 2 * stake paid back, on which the operator's
\* commit is refused
WitnessCommitAfterRefund ==
    \E i \in MatchIds :
        /\ matches[i].status = REFUNDED
        /\ PaidOut(i) = 2 * matches[i].stake
        /\ commitResultResult(Operator, i, matches[i].p1) = "Match not staked"

\* the staked flag of account s in the record m
stakedFlag(m, s) == IF s = m.p1 THEN m.p1Staked ELSE m.p2Staked

\* a player of the existing CREATED match i who has not staked yet
CanStillStake(i, s) ==
    /\ matches[i].id # NoId
    /\ matches[i].status = CREATED
    /\ s \in {matches[i].p1, matches[i].p2}
    /\ ~stakedFlag(matches[i], s)

\* C11: when a player who may still stake calls stake while the token is
\* paused, or with an allowance or a balance below the stake, the call is refused
\* with the reason of the token; and no step taken from such a state sets the
\* flag of that player, changes the status or the startTime of the match, takes
\* tokens from the player or appends a Staked event for the player.
StakeAllOrNothing ==
    /\ [](\A i \in MatchIds, s \in Addr :
            CanStillStake(i, s) =>
                /\ paused => stakeResult(s, i) = "Pausable: paused"
                /\ (~paused /\ allowance[s] < matches[i].stake) =>
                       stakeResult(s, i) = "ERC20: insufficient allowance"
                /\ (~paused /\ allowance[s] >= matches[i].stake
                            /\ balances[s] < matches[i].stake) =>
                       stakeResult(s, i) = "ERC20: transfer amount exceeds balance")
    /\ [][vars' # vars =>
            \A i \in MatchIds, s \in Addr :
                (/\ CanStillStake(i, s)
                 /\ (paused \/ allowance[s] < matches[i].stake
                             \/ balances[s] < matches[i].stake)) =>
                    /\ ~stakedFlag(matches'[i], s)
                    /\ matches'[i].status = matches[i].status
                    /\ matches'[i].startTime = matches[i].startTime
                    /\ balances'[s] >= balances[s]
                    /\ ~(/\ Len(events') > Len(events)
                         /\ events'[Len(events')].type = "Staked"
                         /\ events'[Len(events')].a = s)
                    /\ ~stake(s, i)]_vars

\* a CREATED match nobody has staked into: player 1 is refused for its
\* allowance and player 2, whose allowance would do, for its balance
WitnessStakeTransferRefused ==
    \E i \in MatchIds :
        /\ CanStillStake(i, matches[i].p1)
        /\ CanStillStake(i, matches[i].p2)
        /\ stakeResult(matches[i].p1, i) = "ERC20: insufficient allowance"
        /\ stakeResult(matches[i].p2, i) = "ERC20: transfer amount exceeds balance"
        /\ balances[matches[i].p1] >= matches[i].stake

\* C12: a match with fewer than two stakes is CREATED with no startTime; a
\* match with both stakes has left CREATED and has 0 < startTime <= now; a STAKED
\* match holds exactly 2 * stake in custody, from two Staked events.  A step
\* takes a match into STAKED exactly when it takes the number of stakes from 1 to
\* 2, and then startTime is the time of that step; the first stake leaves the
\* match CREATED with one stake in custody; flags are never cleared, so STAKED
\* is entered once.
BothStakesStartMatch ==
    /\ [](\A i \in MatchIds :
            LET m == matches[i] IN
            /\ stakedCount(m) <= 1 => (m.status = CREATED /\ m.startTime = 0)
            /\ stakedCount(m) = 2 =>
                   /\ m.status \in {STAKED, SETTLED, REFUNDED}
                   /\ 0 < m.startTime /\ m.startTime <= now
            /\ m.status = STAKED =>
                   /\ custody[i] = 2 * m.stake
                   /\ Cardinality(EventsOf("Staked", i)) = 2)
    /\ [][matches' # matches =>
            \A i \in MatchIds :
                LET m == matches[i]
                    n == matches'[i]
                IN
                /\ stakedCount(n) >= stakedCount(m)
                /\ (m.status # STAKED /\ n.status = STAKED)
                       <=> (stakedCount(m) = 1 /\ stakedCount(n) = 2)
                /\ (m.status # STAKED /\ n.status = STAKED) =>
                       /\ m.status = CREATED
                       /\ n.startTime = now
                       /\ now > 0
                       /\ custody'[i] = 2 * n.stake
                /\ (stakedCount(m) = 0 /\ stakedCount(n) = 1) =>
                       /\ n.status = CREATED
                       /\ n.startTime = 0
                       /\ custody'[i] = n.stake]_vars

\* the state right after the second stake, made by player 1 later than the
\* match was created: the match is STAKED as of this very second
WitnessSecondStake ==
    \E i \in MatchIds :
        /\ matches[i].status = STAKED
        /\ matches[i].startTime = now
        /\ now > 1
        /\ custody[i] = 2 * matches[i].stake
        /\ events[Len(events)] =
               Event("Staked", i, matches[i].p1, ZERO, matches[i].stake)

\* C13: on an existing CREATED match, stake sent by an account that is neither
\* player is refused with "Not a player in this match", whatever has been staked
\* so far; no step that changes the state is such a call, and every Staked event
\* of a match names one of its two players.
NonPlayerCannotStake ==
    /\ [](\A i \in MatchIds :
            /\ \A s \in Addr :
                   (/\ matches[i].id # NoId
                    /\ matches[i].status = CREATED
                    /\ s \notin {matches[i].p1, matches[i].p2}) =>
                       stakeResult(s, i) = "Not a player in this match"
            /\ \A k \in EventsOf("Staked", i) :
                   events[k].a \in {matches[i].p1, matches[i].p2})
    /\ [][matches' # matches =>
            \A i \in MatchIds, s \in Addr :
                ~(/\ s \notin {matches[i].p1, matches[i].p2}
                  /\ stake(s, i))]_vars

\* a CREATED match holding the stake of player 1, open to the stake of player 2
\* and closed to the owner and the operator
WitnessNonPlayerRefused ==
    \E i \in MatchIds :
        /\ matches[i].status = CREATED
        /\ matches[i].p1Staked
        /\ stakeResult(matches[i].p2, i) = OK
        /\ stakeResult(Owner, i) = "Not a player in this match"
        /\ stakeResult(Operator, i) = "Not a player in this match"

\* tokens account s has paid into match i, from the event log
StakedBy(i, s) == AmountOf({k \in EventsOf("Staked", i) : events[k].a = s})

\* C14: stake by a player whose flag is already set is refused with "Already
\* staked" while the match is CREATED, and every stake on an existing match that
\* is not CREATED is refused with "Match not in created status", whoever sends
\* it; no step that changes the state is such a call; so what a player has paid
\* into a match is the stake if its flag is set and nothing otherwise, and a
\* match never holds more than 2 * stake.
StakeAtMostOnce ==
    /\ [](\A i \in MatchIds :
            LET m == matches[i] IN
            /\ \A s \in Addr :
                   /\ (m.id # NoId /\ m.status # CREATED) =>
                          stakeResult(s, i) = "Match not in created status"
                   /\ (/\ m.id # NoId
                       /\ m.status = CREATED
                       /\ s \in {m.p1, m.p2}
                       /\ stakedFlag(m, s)) => stakeResult(s, i) = "Already staked"
                   /\ StakedBy(i, s) =
                          IF s \in {m.p1, m.p2} /\ stakedFlag(m, s) THEN m.stake ELSE 0
            /\ custody[i] <= 2 * m.stake)
    /\ [][matches' # matches =>
            \A i \in MatchIds, s \in Addr :
                ~(/\ (matches[i].status # CREATED \/ stakedFlag(matches[i], s))
                  /\ stake(s, i))]_vars

\* a CREATED match into which player 2 has staked: its second stake is refused
\* although its balance and its allowance would cover it
WitnessStakedTwice ==
    \E i \in MatchIds :
        LET m == matches[i] IN
        /\ m.status = CREATED
        /\ m.p2Staked /\ ~m.p1Staked
        /\ transferFromResult(m.p2, m.stake) = OK
        /\ stakeResult(m.p2, i) = "Already staked"
        /\ StakedBy(i, m.p2) = m.stake

ValidMatchesOnly ==
    /\ [](/\ matches[NoId] = EmptyMatch
          /\ \A i \in MatchIds :
                matches[i].id # NoId =>
                    /\ matches[i].id = i
                    /\ matches[i].p1 # matches[i].p2
                    /\ matches[i].p1 # ZERO /\ matches[i].p2 # ZERO
                    /\ matches[i].stake > 0
          /\ \A i \in MatchIds, p1 \in PlayerArgs, p2 \in PlayerArgs, st \in StakeArgs :
                /\ createMatchResult(Owner, NoId, p1, p2, st) = "Invalid match ID"
                /\ (p1 = ZERO \/ p2 = ZERO) =>
                       createMatchResult(Owner, i, p1, p2, st) = "Invalid player addresses"
                /\ (p1 # ZERO /\ p1 = p2) =>
                       createMatchResult(Owner, i, p1, p2, st) = "Players must be different"
                /\ (p1 # ZERO /\ p2 # ZERO /\ p1 # p2 /\ st = 0) =>
                       createMatchResult(Owner, i, p1, p2, st)
                           = "Stake must be greater than 0")
    /\ [][matches' # matches =>
            \A s \in Addr, i \in IdArgs, p1 \in PlayerArgs, p2 \in PlayerArgs,
               st \in StakeArgs :
                (i = NoId \/ p1 = ZERO \/ p2 = ZERO \/ p1 = p2 \/ st = 0) =>
                    ~createMatch(s, i, p1, p2, st)]_vars

\* a match created with the largest stake, nothing staked into it yet, while
\* the zero id is still refused
WitnessValidMatch ==
    \E i \in MatchIds :
        /\ matches[i].id = i
        /\ matches[i].stake = MaxStake
        /\ stakedCount(matches[i]) = 0
        /\ matches[i].p1 # matches[i].p2
        /\ createMatchResult(Owner, NoId, matches[i].p1, matches[i].p2, 1)
               = "Invalid match ID"

\* C17: createMatch sent by any account but the owner (the operator and both
\* players included) is refused with "Ownable: caller is not the owner",
\* whatever the arguments; the owner's call with a fresh id, two different
\* players and a stake above 0 goes through; no step that changes the state is a
\* createMatch of another account.
OnlyOwnerCreates ==
    /\ [](\A i \in IdArgs, p1 \in PlayerArgs, p2 \in PlayerArgs, st \in StakeArgs :
            /\ \A s \in Addr \ {Owner} :
                   createMatchResult(s, i, p1, p2, st)
                       = "Ownable: caller is not the owner"
            /\ (/\ i # NoId /\ matches[i].id = NoId
                /\ p1 # ZERO /\ p2 # ZERO /\ p1 # p2 /\ st > 0) =>
                   createMatchResult(Owner, i, p1, p2, st) = OK)
    /\ [][matches' # matches =>
            \A s \in Addr \ {Owner}, i \in IdArgs, p1 \in PlayerArgs,
               p2 \in PlayerArgs, st \in StakeArgs :
                ~createMatch(s, i, p1, p2, st)]_vars

\* tokens are out and approved but no match exists yet: the same arguments are
\* accepted from the owner and refused from a player and from the operator
WitnessOwnerOnly ==
    \E i \in MatchIds, p1 \in Players, p2 \in Players :
        /\ matches[i].id = NoId
        /\ balances[p1] > 0 /\ allowance[p1] > 0
        /\ createMatchResult(Owner, i, p1, p2, 1) = OK
        /\ createMatchResult(p1, i, p1, p2, 1) = "Ownable: caller is not the owner"
        /\ createMatchResult(Operator, i, p1, p2, 1)
               = "Ownable: caller is not the owner"

\* C18: a createMatch(id, p1, p2, stake) that goes through leaves a state in
\* which getMatch(id) is the record (id, p1, p2, stake, CREATED, false, false, 0)
\* and MatchCreated(id, p1, p2, stake) is the newest event; and in every state
\* a match exists exactly when its MatchCreated event is in the log, with the
\* players and the stake of the record.
CreateThenGet ==
    /\ [](\A i \in MatchIds :
            /\ (getMatch(i).id # NoId) <=> (EventsOf("MatchCreated", i) # {})
            /\ \A k \in EventsOf("MatchCreated", i) :
                   /\ events[k].a = getMatch(i).p1
                   /\ events[k].b = getMatch(i).p2
                   /\ events[k].amount = getMatch(i).stake)
    /\ [][matches' # matches =>
            \A s \in Addr, i \in MatchIds, p1 \in PlayerArgs, p2 \in PlayerArgs,
               st \in StakeArgs :
                (createMatchResult(s, i, p1, p2, st) = OK /\ createMatch(s, i, p1, p2, st)) =>
                    /\ getMatch(i)' =
                           [id |-> i, p1 |-> p1, p2 |-> p2, stake |-> st,
                            status |-> CREATED, p1Staked |-> FALSE,
                            p2Staked |-> FALSE, startTime |-> 0]
                    /\ events' = Append(events, Event("MatchCreated", i, p1, p2, st))]_vars

\* the state right after a createMatch made later than the first second:
\* MatchCreated is the newest event and getMatch returns a fresh record
WitnessJustCreated ==
    /\ events # <<>>
    /\ now > 1
    /\ LET e == events[Len(events)] IN
         /\ e.type = "MatchCreated"
         /\ getMatch(e.matchId) =
                [id |-> e.matchId, p1 |-> e.a, p2 |-> e.b, stake |-> e.amount,
                 status |-> CREATED, p1Staked |-> FALSE, p2Staked |-> FALSE,
                 startTime |-> 0]

\* C19: in every state and for every match, startTime is non-zero exactly when
\* the status is STAKED, SETTLED or REFUNDED and both staked flags are set; and a
\* startTime that is non-zero is never changed by any step.
StartTimeIffStarted ==
    /\ [](\A i \in IdArgs :
            (matches[i].startTime # 0) <=>
                (/\ matches[i].status \in {STAKED, SETTLED, REFUNDED}
                 /\ matches[i].p1Staked
                 /\ matches[i].p2Staked))
    /\ [][\A i \in IdArgs :
            matches[i].startTime # 0 => matches'[i].startTime = matches[i].startTime]_vars

\* a match settled later than it was started: its startTime is still the time
\* of the second stake
WitnessStartTimeKept ==
    \E i \in MatchIds :
        /\ matches[i].status = SETTLED
        /\ matches[i].startTime # 0
        /\ matches[i].startTime < now

\* the revert reasons of the three require statements of refund()
RefundPreconditionFailures ==
    {"Match does not exist", "Match not staked", "Timeout not reached"}

\* C20: canRefund(id) is true exactly when the match exists, is STAKED and
\* now >= startTime + timeout, which is exactly when refund(id) passes its three
\* require statements, for every caller (with the token not paused: exactly
\* when refund(id) goes through); it is false for the zero id, for an id not
\* used, for a CREATED match with any number of stakes, for a SETTLED or
\* REFUNDED match and before the deadline.
CanRefundMatchesRefund ==
    \A i \in IdArgs :
        LET m == matches[i] IN
        /\ canRefund(i) <=>
               (m.id # NoId /\ m.status = STAKED /\ now >= m.startTime + Timeout)
        /\ \A s \in Addr :
               /\ canRefund(i) <=> (refundResult(s, i) \notin RefundPreconditionFailures)
               /\ ~paused => (canRefund(i) <=> (refundResult(s, i) = OK))
        /\ (i = NoId \/ m.id = NoId) => ~canRefund(i)
        /\ m.status \in {CREATED, SETTLED, REFUNDED} => ~canRefund(i)
        /\ now < m.startTime + Timeout => ~canRefund(i)

\* a STAKED match at the very second of its deadline: canRefund has just turned
\* true and the refund of any caller goes through
WitnessCanRefund ==
    \E i \in MatchIds :
        /\ canRefund(i)
        /\ matches[i].status = STAKED
        /\ now = matches[i].startTime + Timeout
        /\ \A s \in Addr : refundResult(s, i) = OK

\* ---- properties of the indexer ------------------------------------------------

\* the recorded rows that say what the Settled event (matchId, winner, amount,
\* tx) says
SettledRows(matchId, winner, amount, tx) ==
    {k \in DOMAIN rows :
        /\ rows[k].event_type = "Settled"
        /\ rows[k].match_id = matchId
        /\ rows[k].address = winner
        /\ rows[k].amount = amount
        /\ rows[k].tx = tx}

\* C21: handling a Settled event that has been handled before (same match,
\* winner, amount and transaction) leaves every player record as it is.
SettledReplayIdempotent ==
    [][\A i \in AggMatchIds, w \in Players, a \in AmountArgs, tx \in TxArgs :
         (SettledRows(i, w, a, tx) # {} /\ handleSettledEvent(i, w, a, tx)) =>
             players' = players]_vars

\* the accumulation rule of the handler of each event type, applied to a
\* recorded row
replayRow(ps, r) ==
    CASE r.event_type = "Purchase" -> updatePlayerStats(ps, r.address, 0, 0, 0)
      [] r.event_type = "MatchCreated" -> updatePlayerStats(ps, r.address, 0, 0, 0)
      [] r.event_type = "Staked" -> ps
      [] r.event_type = "Settled" -> updatePlayerStats(ps, r.address, 1, r.amount, 1)
      [] r.event_type = "Refunded" -> updatePlayerStats(ps, r.address, 0, 0, 1)

RECURSIVE replay(_, _)
replay(ps, rs) ==
    IF rs = <<>> THEN ps ELSE replay(replayRow(ps, Head(rs)), Tail(rs))

recordOf(ps, a) ==
    IF a \in DOMAIN ps THEN ps[a]
    ELSE [wins |-> 0, total_gt_won |-> 0, matches_played |-> 0]

\* C23: handling Settled(id, winner, amount) adds exactly 1 to wins, amount to
\* total_gt_won and 1 to matches_played of the winner, whose record is created
\* if absent, and changes no other record.
SettledAddsExactly ==
    [][\A i \in AggMatchIds, w \in Players, a \in AmountArgs, tx \in TxArgs :
         handleSettledEvent(i, w, a, tx) =>
             /\ DOMAIN players' = DOMAIN players \cup {w}
             /\ players'[w] =
                    [wins |-> recordOf(players, w).wins + 1,
                     total_gt_won |-> recordOf(players, w).total_gt_won + a,
                     matches_played |-> recordOf(players, w).matches_played + 1]
             /\ \A q \in DOMAIN players \ {w} : players'[q] = players[q]]_vars

\* C24: handling Refunded(id, player, amount) adds exactly 1 to matches_played
\* of the player, leaves its wins and total_gt_won as they are and changes no
\* other record.
RefundedCountsMatchOnly ==
    [][\A i \in AggMatchIds, p \in Players, a \in AmountArgs, tx \in TxArgs :
         handleRefundedEvent(i, p, a, tx) =>
             /\ DOMAIN players' = DOMAIN players \cup {p}
             /\ players'[p] =
                    [wins |-> recordOf(players, p).wins,
                     total_gt_won |-> recordOf(players, p).total_gt_won,
                     matches_played |-> recordOf(players, p).matches_played + 1]
             /\ \A q \in DOMAIN players \ {p} : players'[q] = players[q]]_vars

\* C25: handling a Purchase, MatchCreated or Staked event changes the wins,
\* total_gt_won and matches_played of no existing record; Purchase and
\* MatchCreated create an all-zero record for each address they name that has
\* none, and Staked leaves the players table as it is.
InformationalEventsKeepStats ==
    [][/\ \A b \in Players, g \in OtherAmountArgs, tx \in TxArgs :
            handlePurchaseEvent(b, g, tx) =>
                /\ DOMAIN players' = DOMAIN players \cup {b}
                /\ \A q \in DOMAIN players' : players'[q] = recordOf(players, q)
       /\ \A i \in AggMatchIds, p1 \in Players, p2 \in Players, st \in OtherAmountArgs,
             tx \in TxArgs :
            handleMatchCreatedEvent(i, p1, p2, st, tx) =>
                /\ DOMAIN players' = DOMAIN players \cup {p1, p2}
                /\ \A q \in DOMAIN players' : players'[q] = recordOf(players, q)
       /\ \A i \in AggMatchIds, p \in Players, st \in OtherAmountArgs, tx \in TxArgs :
            handleStakedEvent(i, p, st, tx) => players' = players]_vars

\* the players table after the handler of its type has handled the contract
\* event e
consume(ps, e) ==
    CASE e.type = "MatchCreated" ->
             updatePlayerStats(updatePlayerStats(ps, e.a, 0, 0, 0), e.b, 0, 0, 0)
      [] e.type = "Staked" -> ps
      [] e.type = "Settled" -> updatePlayerStats(ps, e.a, 1, e.amount, 1)
      [] e.type = "Refunded" -> updatePlayerStats(ps, e.a, 0, 0, 1)

RECURSIVE consumeAll(_, _)
consumeAll(ps, evs) ==
    IF evs = <<>> THEN ps ELSE consumeAll(consume(ps, Head(evs)), Tail(evs))

\* the players table of an indexer that has handled every event PlayGame has
\* emitted so far, each once and in the order of emission
indexed == consumeAll([a \in {} |-> 0], events)

\* the SETTLED matches account p has won, from the Settled events
WonBy(p) ==
    {i \in MatchIds :
        /\ matches[i].status = SETTLED
        /\ \E k \in EventsOf("Settled", i) : events[k].a = p}

RECURSIVE TwiceStakeOver(_)
TwiceStakeOver(S) ==
    IF S = {} THEN 0
    ELSE LET i == CHOOSE x \in S : TRUE IN 2 * matches[i].stake + TwiceStakeOver(S \ {i})

\* C26: a commitResult that goes through credits the winner with 2 * stake and
\* leaves the match SETTLED; and once the indexer has handled every emitted
\* event once, the record of every player shows as wins the number of SETTLED
\* matches the player has won, as total_gt_won the sum of 2 * stake over these
\* matches and as matches_played the same number (1, 2 * stake, 1 for the
\* winner of the one match).
EndToEndLeaderboard ==
    /\ [](\A p \in DOMAIN indexed :
            /\ indexed[p].wins = Cardinality(WonBy(p))
            /\ indexed[p].total_gt_won = TwiceStakeOver(WonBy(p))
            /\ WonBy(p) # {} => indexed[p].matches_played = Cardinality(WonBy(p)))
    /\ [][matches' # matches =>
            \A s \in Addr, i \in MatchIds, w \in Players :
                (commitResultResult(s, i, w) = OK /\ commitResult(s, i, w)) =>
                    /\ balances'[w] = balances[w] + 2 * matches[i].stake
                    /\ matches'[i].status = SETTLED]_vars

\* the addresses in ascending order
AddressOrder == <<"alice", "bob">>
addressIndex(a) == CHOOSE k \in 1..Len(AddressOrder) : AddressOrder[k] = a

\* player p outranks player q: larger total, then more wins, then the address
Outranks(p, q) ==
    \/ players[p].total_gt_won > players[q].total_gt_won
    \/ /\ players[p].total_gt_won = players[q].total_gt_won
       /\ players[p].wins > players[q].wins
    \/ /\ players[p].total_gt_won = players[q].total_gt_won
       /\ players[p].wins = players[q].wins
       /\ addressIndex(p) < addressIndex(q)

\* C27: whatever getLeaderboard(limit) returns has at most limit players, leaves
\* out no player that outranks one it returns, and lists its players so that
\* each outranks all that follow, by total_gt_won, then wins, then address; so
\* on one players table there is only one result it can return.
LeaderboardOrdered ==
    \A limit \in LimitArgs :
        /\ Cardinality(getLeaderboard(limit)) = 1
        /\ \A r \in getLeaderboard(limit) :
               /\ Len(r) <= limit
               /\ \A j \in 1..Len(r), k \in 1..Len(r) : j < k => Outranks(r[j], r[k])
               /\ \A q \in DOMAIN players \ {r[k] : k \in 1..Len(r)} :
                      \A k \in 1..Len(r) : ~Outranks(q, r[k])

\* C28: whatever getRecentEvents(limit) returns is the limit rows recorded last,
\* the latest first: ids Len(rows), Len(rows) - 1, ..., also when rows share a
\* timestamp.
RecentEventsBySequence ==
    \A limit \in LimitArgs :
        \A r \in getRecentEvents(limit) :
            /\ Len(r) = IF limit < Len(rows) THEN limit ELSE Len(rows)
            /\ \A k \in 1..Len(r) : r[k] = Len(rows) - k + 1

\* ---- properties of the contract, continued ---------------------------------------

\* the positions of the events of match i in the log
EventsOfMatch(i) == {k \in 1..Len(events) : events[k].matchId = i}

\* C29: in the log, the events of every match that has any begin with its one
\* MatchCreated; each account has at most one Staked event per match; every
\* Settled or Refunded event comes after both Staked events of the match; a
\* match has at most one Settled event, or else exactly two Refunded events, one
\* for each player, and never events of both kinds.
LifecycleOrder ==
    \A i \in MatchIds :
        LET created == EventsOf("MatchCreated", i)
            staked == EventsOf("Staked", i)
            settled == EventsOf("Settled", i)
            refunded == EventsOf("Refunded", i)
        IN
        /\ Cardinality(created) = IF EventsOfMatch(i) = {} THEN 0 ELSE 1
        /\ \A c \in created, k \in EventsOfMatch(i) \ created : c < k
        /\ \A p \in Addr : Cardinality({k \in staked : events[k].a = p}) <= 1
        /\ \A k \in settled \cup refunded :
               Cardinality({j \in staked : j < k}) = 2
        /\ Cardinality(settled) <= 1
        /\ ~(settled # {} /\ refunded # {})
        /\ refunded # {} =>
               /\ Cardinality(refunded) = 2
               /\ {events[k].a : k \in refunded} = {matches[i].p1, matches[i].p2}

\* the whole life of a refunded match in the log: created, staked by player 2
\* and then player 1, refunded to both
WitnessRefundedLifecycle ==
    \E i \in MatchIds :
        /\ Len(events) = 5
        /\ events[1].type = "MatchCreated"
        /\ events[2] = Event("Staked", i, matches[i].p2, ZERO, matches[i].stake)
        /\ events[3].type = "Staked"
        /\ events[4].type = "Refunded"
        /\ events[5].type = "Refunded"

\* C30: requests on one match that arrive together are executed one after the
\* other, each as a whole, and either order gives the outcome the claim names.
\* Two stakes: when both players could stake, the stake of one leaves the match
\* CREATED with one stake in custody and the request of the other still goes
\* through; the stake that follows leaves it STAKED with 2 * stake in custody.
\* commitResult against refund: when both would go through on a STAKED match,
\* whichever is executed takes exactly 2 * stake out of custody and the other is
\* then refused with "Match not staked".
RacesAreSerial ==
    [][vars' # vars =>
        \A i \in MatchIds :
            LET m == matches[i] IN
            /\ \A p \in Players, q \in Players :
                   (/\ p # q
                    /\ CanStillStake(i, p) /\ stakeResult(p, i) = OK
                    /\ CanStillStake(i, q) /\ stakeResult(q, i) = OK
                    /\ stake(p, i)) =>
                       /\ matches'[i].status = CREATED
                       /\ custody'[i] = m.stake
                       /\ stakeResult(q, i)' = OK
            /\ \A q \in Players :
                   (stakedCount(m) = 1 /\ stake(q, i)) =>
                       /\ matches'[i].status = STAKED
                       /\ custody'[i] = 2 * m.stake
            /\ \A s \in Addr, w \in Players :
                   (/\ m.status = STAKED
                    /\ commitResultResult(Operator, i, w) = OK
                    /\ refundResult(s, i) = OK) =>
                       /\ custody[i] = 2 * m.stake
                       /\ commitResult(Operator, i, w) =>
                              /\ custody'[i] = 0
                              /\ balances'[THIS] = balances[THIS] - 2 * m.stake
                              /\ refundResult(s, i)' = "Match not staked"
                       /\ refund(s, i) =>
                              /\ custody'[i] = 0
                              /\ balances'[THIS] = balances[THIS] - 2 * m.stake
                              /\ commitResultResult(Operator, i, w)' = "Match not staked"]_vars

\* a STAKED match past its deadline on which the operator's commit and a
\* player's refund would both go through
WitnessRaceOn ==
    \E i \in MatchIds :
        /\ matches[i].status = STAKED
        /\ custody[i] = 2 * matches[i].stake
        /\ commitResultResult(Operator, i, matches[i].p1) = OK
        /\ refundResult(matches[i].p2, i) = OK

StakedEventsOf(i, p) == {k \in EventsOf("Staked", i) : events[k].a = p}
RefundedEventsOf(i, p) == {k \in EventsOf("Refunded", i) : events[k].a = p}

\* C31: in every state the record of a match and the events of the log say the
\* same: the match exists exactly when its MatchCreated event is in the log, a
\* staked flag is set exactly when the Staked event of that player is, the match
\* is SETTLED exactly when its Settled event is and REFUNDED exactly when the
\* Refunded events of both players are; and a step appends events exactly when
\* it changes a match record, so no step shows one without the other (a
\* reverted call is no step and appends nothing).
EventsMatchState ==
    /\ [](\A i \in MatchIds :
            LET m == matches[i] IN
            /\ (m.id # NoId) <=> (Cardinality(EventsOf("MatchCreated", i)) = 1)
            /\ (m.id = NoId) <=> (EventsOfMatch(i) = {})
            /\ \A p \in Players :
                   /\ (m.id # NoId /\ p \in {m.p1, m.p2} /\ stakedFlag(m, p))
                          <=> (Cardinality(StakedEventsOf(i, p)) = 1)
                   /\ ~(m.id # NoId /\ p \in {m.p1, m.p2} /\ stakedFlag(m, p))
                          <=> (StakedEventsOf(i, p) = {})
                   /\ (m.status = REFUNDED) <=> (Cardinality(RefundedEventsOf(i, p)) = 1)
                   /\ (m.status # REFUNDED) <=> (RefundedEventsOf(i, p) = {})
            /\ (m.status = SETTLED) <=> (Cardinality(EventsOf("Settled", i)) = 1)
            /\ (m.status # SETTLED) <=> (EventsOf("Settled", i) = {}))
    /\ [][(events' # events) <=> (matches' # matches)]_vars
    /\ [][\A i \in MatchIds : (matches'[i] # matches[i]) <=>
              (\E k \in (Len(events) + 1)..Len(events') : events'[k].matchId = i)]_vars

\* a settled match whose log holds its creation, the stake of each player and
\* the one Settled event
WitnessSettledLogged ==
    \E i \in MatchIds :
        /\ matches[i].status = SETTLED
        /\ Cardinality(EventsOf("MatchCreated", i)) = 1
        /\ Cardinality(EventsOf("Staked", i)) = 2
        /\ Cardinality(EventsOf("Settled", i)) = 1
        /\ Len(events) = 4

\* the recorded rows taken in the order s of their ids
reordered(s) == [k \in 1..Len(s) |-> rows[s[k]]]

\* C32: the player records do not depend on the order in which the events were
\* delivered: the accumulation rules applied to the recorded rows in any order
\* give every player the wins, total_gt_won and matches_played they give in the
\* order of recording.
DeliveryOrderIrrelevant ==
    \A s \in ordersOf(DOMAIN rows, {}) :
        replay([a \in {} |-> 0], reordered(s)) = replay([a \in {} |-> 0], rows)

\* C33: the recorded rows carry strictly increasing ids, every row an id greater
\* than that of every row recorded before it, and every step of the indexer
\* keeps the rows recorded so far as they are, in their places, adding new rows
\* after them only.
EventLogAppendOnly ==
    /\ [](\A j \in DOMAIN rows, k \in DOMAIN rows : j < k => rows[j].id < rows[k].id)
    /\ [][/\ Len(rows') >= Len(rows)
          /\ SubSeq(rows', 1, Len(rows)) = rows
          /\ \A k \in (Len(rows) + 1)..Len(rows') :
                 \A j \in DOMAIN rows : rows'[k].id > rows[j].id]_vars

\* a MatchCreated event recorded as two rows after an earlier row
WitnessRowsAppended ==
    /\ Len(rows) >= 3
    /\ rows[1].event_type # "MatchCreated"
    /\ rows[2].event_type = "MatchCreated" /\ rows[3].event_type = "MatchCreated"
    /\ rows[1].id < rows[2].id /\ rows[2].id < rows[3].id

MatchFrame ==
    [][matches' # matches =>
        /\ DOMAIN matches' = DOMAIN matches
        /\ \A i \in MultiIds :
               LET m == matches[i]
                   others == \A j \in DOMAIN matches \ {i} :
                                 /\ matches'[j] = matches[j]
                                 /\ j \in MultiIds => custody'[j] = custody[j]
               IN
               /\ m.id # NoId =>
                      /\ matches'[i].id = m.id
                      /\ matches'[i].p1 = m.p1
                      /\ matches'[i].p2 = m.p2
                      /\ matches'[i].stake = m.stake
               /\ matches'[i] # m => others
               /\ \A s \in Addr :
                      /\ stake(s, i) => others
                      /\ refund(s, i) => others
                      /\ \A w \in WinnerArgs : commitResult(s, i, w) => others
                      /\ \A p1 \in PlayerArgs, p2 \in PlayerArgs, st \in StakeArgs :
                             createMatch(s, i, p1, p2, st) => others]_vars

\* two matches of the same players side by side, one STAKED with its stakes in
\* custody, the other already paid out
WitnessTwoMatches ==
    \E i \in MultiIds, j \in MultiIds :
        /\ i # j
        /\ matches[i].status = SETTLED /\ custody[i] = 0
        /\ matches[j].status = STAKED /\ custody[j] = 2 * matches[j].stake

\* C36: every STAKED match has a stake whose double fits a uint256 and is in
\* custody, and a commitResult that goes through pays the winner exactly that
\* double, the amount of its Settled event; a match whose stake doubles beyond a
\* uint256 is never STAKED or SETTLED, has no Settled event, and commitResult on
\* it is refused for every caller and winner, so no payout is ever a wrapped
\* product.
PayoutNeverWraps ==
    /\ [](\A i \in MatchIds :
            LET m == matches[i] IN
            /\ m.stake <= UintMax
            /\ m.status = STAKED =>
                   /\ 2 * m.stake <= UintMax
                   /\ custody[i] = 2 * m.stake
                   /\ \A w \in {m.p1, m.p2} : commitResultResult(Operator, i, w) # Panic
            /\ 2 * m.stake > UintMax =>
                   /\ m.status = CREATED
                   /\ EventsOf("Settled", i) = {}
                   /\ \A s \in Addr, w \in WinnerArgs : commitResultResult(s, i, w) # OK
            /\ \A k \in EventsOf("Settled", i) :
                   events[k].amount = 2 * m.stake /\ events[k].amount <= UintMax)
    /\ [][\A s \in Addr, i \in MatchIds, w \in WinnerArgs :
            commitResult(s, i, w) =>
                /\ 2 * matches[i].stake <= UintMax
                /\ balances'[w] = balances[w] + 2 * matches[i].stake
                /\ balances'[w] <= UintMax
                /\ balances'[THIS] = balances[THIS] - 2 * matches[i].stake]_vars

\* a match whose stake doubles beyond a uint256, staked by the one player who
\* could afford it
WitnessUndoublableStake ==
    \E i \in MatchIds :
        /\ 2 * matches[i].stake > UintMax
        /\ stakedCount(matches[i]) = 1
        /\ custody[i] = matches[i].stake
        /\ commitResultResult(Operator, i, matches[i].p1) = "Match not staked"

\* the event of the given type PlayGame has emitted for match i and account p,
\* and the row the indexer has recorded for it
Emitted(type, i, p) ==
    \E k \in EventsOf(type, i) : events[k].a = p
Recorded(type, i, p) ==
    \E k \in DOMAIN rows :
        rows[k].event_type = type /\ rows[k].match_id = i /\ rows[k].address = p
RowsOf(type, p) ==
    {k \in DOMAIN rows : rows[k].event_type = type /\ rows[k].address = p}

\* C37: the indexer never holds the contracts back: a step of the indexer
\* leaves the contract state and with it the outcome of every createMatch,
\* stake, commitResult and refund call as they were, a step of the contracts
\* leaves the tables of the indexer alone, and the indexer only ever handles
\* events already emitted; and with listeners that run whenever an event is
\* pending, every Settled and every Refunded event emitted is eventually
\* recorded and counted in the record of its player: a win and a match played
\* for Settled, a match played for Refunded.
IndexerLagsAndCatchesUp ==
    /\ [][/\ aggVars' # aggVars =>
               /\ contractVars' = contractVars
               /\ \A s \in Addr, i \in IdArgs :
                      /\ stakeResult(s, i)' = stakeResult(s, i)
                      /\ refundResult(s, i)' = refundResult(s, i)
                      /\ \A w \in WinnerArgs :
                             commitResultResult(s, i, w)' = commitResultResult(s, i, w)
                      /\ \A p1 \in PlayerArgs, p2 \in PlayerArgs, st \in StakeArgs :
                             createMatchResult(s, i, p1, p2, st)'
                                 = createMatchResult(s, i, p1, p2, st)
          /\ contractVars' # contractVars => aggVars' = aggVars]_vars
    /\ [](/\ delivered <= Len(events)
          /\ \A p \in DOMAIN players :
                 /\ players[p].wins = Cardinality(RowsOf("Settled", p))
                 /\ players[p].matches_played =
                        Cardinality(RowsOf("Settled", p)) + Cardinality(RowsOf("Refunded", p)))
    /\ \A i \in MatchIds, p \in Players :
           /\ Emitted("Settled", i, p) ~>
                  (/\ Recorded("Settled", i, p)
                   /\ p \in DOMAIN players
                   /\ players[p].wins >= 1 /\ players[p].matches_played >= 1)
           /\ Emitted("Refunded", i, p) ~>
                  (/\ Recorded("Refunded", i, p)
                   /\ p \in DOMAIN players
                   /\ players[p].matches_played >= 1)

\* a refunded match all of whose events the indexer has handled: both refunds
\* are recorded and counted
WitnessCaughtUp ==
    \E i \in MatchIds :
        /\ matches[i].status = REFUNDED
        /\ delivered = Len(events)
        /\ Len(rows) = Len(events) + 1
        /\ \A p \in {matches[i].p1, matches[i].p2} :
               /\ Recorded("Refunded", i, p)
               /\ p \in DOMAIN players /\ players[p].matches_played = 1

\* the holders other than those listed keep their balances in the step
OthersKeep(S) == \A h \in Holders \ S : balances'[h] = balances[h]

\* C38: no balance is ever negative; a stake moves exactly stake from the
\* player to PlayGame, a commitResult exactly 2 * stake from PlayGame to the
\* winner, a refund exactly stake from PlayGame to each of the two players, and
\* each leaves every other balance and the sum of all balances, PlayGame's
\* included, as they were; no step that changes a match or appends an event
\* changes that sum, which only a mint changes.  A call that fails is no step
\* and moves nothing.
TokensConserved ==
    /\ [](\A h \in Holders : balances[h] >= 0 /\ balances[h] <= totalSupply)
    /\ [][/\ \A s \in Addr, i \in MatchIds :
                LET m == matches[i] IN
                /\ stake(s, i) =>
                       /\ balances'[s] = balances[s] - m.stake
                       /\ balances'[THIS] = balances[THIS] + m.stake
                       /\ OthersKeep({s, THIS})
                /\ refund(s, i) =>
                       /\ balances'[m.p1] = balances[m.p1] + m.stake
                       /\ balances'[m.p2] = balances[m.p2] + m.stake
                       /\ balances'[THIS] = balances[THIS] - 2 * m.stake
                       /\ OthersKeep({m.p1, m.p2, THIS})
                /\ \A w \in WinnerArgs :
                       commitResult(s, i, w) =>
                           /\ balances'[w] = balances[w] + 2 * m.stake
                           /\ balances'[THIS] = balances[THIS] - 2 * m.stake
                           /\ OthersKeep({w, THIS})
          /\ (matches' # matches \/ events' # events) => totalSupply' = totalSupply
          /\ totalSupply' # totalSupply =>
                 /\ totalSupply' > totalSupply
                 /\ \E s \in Addr, to \in Players, amt \in 1..MaxStake : mint(s, to, amt)]_vars

\* a refunded match: PlayGame holds nothing and the whole supply is back with
\* the players
WitnessAllTokensBack ==
    \E i \in MatchIds :
        /\ matches[i].status = REFUNDED
        /\ balances[THIS] = 0
        /\ totalSupply = MaxSupply
        /\ balances[matches[i].p1] + balances[matches[i].p2] = MaxSupply

\* what PlayGame holds for a match: stake times the staked flags while it is
\* CREATED or STAKED, nothing once it is SETTLED or REFUNDED
owed(m) ==
    IF m.status \in {CREATED, STAKED} THEN m.stake * stakedCount(m) ELSE 0
owedAll == [i \in DOMAIN custody |-> owed(matches[i])]

\* C39: with several matches sharing the balance of PlayGame, that balance
\* equals in every state the sum over all matches of what is held for each
\* (stake times staked flags while CREATED or STAKED, 0 once SETTLED or
\* REFUNDED), and the custody of each match is its own share; so for every
\* STAKED match the balance covers the payout and both refunds, commitResult
\* goes through for either player and refund from the deadline on (the token
\* is not paused), and a payout or refund takes its 2 * stake out of the share
\* of its own match and leaves the share of every other match in the balance.
PooledCustodySufficient ==
    /\ [](/\ balances[THIS] = SumOver(owedAll, DOMAIN custody)
          /\ \A i \in MultiIds :
                 LET m == matches[i] IN
                 /\ custody[i] = owed(m)
                 /\ m.status = STAKED =>
                        /\ balances[THIS] >= 2 * m.stake
                        /\ \A w \in {m.p1, m.p2} : commitResultResult(Operator, i, w) = OK
                        /\ now >= m.startTime + Timeout =>
                               \A s \in Addr : refundResult(s, i) = OK)
    /\ [][\A i \in MultiIds :
            custody'[i] < custody[i] =>
                /\ custody'[i] = 0
                /\ custody[i] = 2 * matches[i].stake
                /\ balances'[THIS] = balances[THIS] - custody[i]
                /\ \A j \in MultiIds \ {i} :
                       /\ custody'[j] = custody[j]
                       /\ balances'[THIS] >= custody[j]]_vars

\* one match paid out while the other, fully staked, still has its two stakes
\* in the balance of PlayGame, which holds exactly those
WitnessOtherShareIntact ==
    \E i \in MultiIds, j \in MultiIds :
        /\ i # j
        /\ matches[i].status \in {SETTLED, REFUNDED}
        /\ EventsOf("Staked", i) # {}
        /\ matches[j].status = STAKED
        /\ balances[THIS] = 2 * matches[j].stake
        /\ commitResultResult(Operator, j, matches[j].p2) = OK

Terminal(i) == matches[i].status \in {SETTLED, REFUNDED}

\* C40: on a STAKED match whose deadline has passed refund goes through for
\* every caller while the token is not paused, and it stays so in every step
\* that leaves the match STAKED; so with a clock that goes on and a refund that
\* is sent while it stays possible, every match that is STAKED (with a deadline
\* the clock of the model reaches) becomes SETTLED or REFUNDED with nothing
\* left in custody, and keeps that status.
StakedMatchTerminates ==
    /\ [](\A i \in MatchIds, s \in Addr :
            (matches[i].status = STAKED /\ now >= matches[i].startTime + Timeout /\ ~paused)
                => refundResult(s, i) = OK)
    /\ [][\A i \in MatchIds :
            /\ (matches[i].status = STAKED /\ now >= matches[i].startTime + Timeout
                    /\ matches'[i].status = STAKED) =>
                   /\ now' >= matches'[i].startTime + Timeout
                   /\ ~paused' => \A s \in Addr : refundResult(s, i)' = OK
            /\ Terminal(i) => matches'[i].status = matches[i].status]_vars
    /\ \A i \in MatchIds :
           (matches[i].status = STAKED /\ matches[i].startTime + Timeout <= MaxTime)
               ~> (Terminal(i) /\ custody[i] = 0 /\ balances[THIS] = 0)

\* a match refunded at the very deadline: its custody is released and both
\* players hold their stake again
WitnessReleasedAtDeadline ==
    \E i \in MatchIds :
        /\ matches[i].status = REFUNDED
        /\ now = matches[i].startTime + Timeout
        /\ custody[i] = 0
        /\ balances[matches[i].p1] >= matches[i].stake
        /\ balances[matches[i].p2] >= matches[i].stake
        /\ refundResult(Operator, i) = "Match not staked"

====
